---------------------------- MODULE Spec2Model ----------------------------
(***************************************************************************)
(* Model of the opensearch-stream ingestion pipeline                       *)
(*   stdin -> JSONStream.parse -> collectData(batchSize) -> sendToElastic   *)
(* taken from the current program text (src/unnamed/part_000, the version   *)
(* with --verbose, --upsert and --idField).                                 *)
(*                                                                          *)
(* Node runs every handler to completion on one event loop, so one action   *)
(* is one handler run: collectData's write and end (each including the      *)
(* synchronous part of sendToElastic's write that the 'data' event they     *)
(* emit triggers), and the continuation of sendToElastic's write after      *)
(* `await esClient.bulk(...)`, once for a resolved and once for a rejected  *)
(* call.  Outstanding bulk calls settle in any order.                       *)
(***************************************************************************)
EXTENDS Integers, Sequences, FiniteSets, TLC

(* ------------------------------ bounds -------------------------------- *)
MaxDocs == 3        \* longest input (documents on stdin)
MaxBatchSize == 2   \* largest --batchSize tried (1..MaxBatchSize)
MaxHashDocs == 4    \* longest input when the identifiers are compared

(* --------------------------- program constants ------------------------ *)
StatusConflict == 409   \* case 409: document version conflict

NoValue == "undefined"  \* doc[args.idField] of a document without the field

(* A document is a JSON object: its << key, value >> pairs in insertion    *)
(* order.  "id" is the designated ID field (--idField), "a" and "ts" are   *)
(* content.  The second document has no ID field.                          *)
Doc == { << <<"a", "x">>, <<"id", "k1">> >>, << <<"a", "y">> >> }

(* doc[key]                                                                *)
Field(doc, key) ==
    IF \E i \in 1..Len(doc) : doc[i][1] = key
    THEN doc[CHOOSE i \in 1..Len(doc) : doc[i][1] = key][2]
    ELSE NoValue

RECURSIVE SeqsUpTo(_, _)
SeqsUpTo(S, n) ==
    IF n = 0 THEN { <<>> }
    ELSE LET shorter == SeqsUpTo(S, n - 1)
         IN  shorter \cup { Append(s, x) : s \in { t \in shorter : Len(t) = n - 1 }, x \in S }

VARIABLES
    args,               \* the parsed command line: batchSize, verbose, upsert
    stdin,              \* the documents JSONStream.parse will emit, in order
    read,               \* how many of them it has emitted so far
    buffer,             \* collectData: var buffer
    batchesExpected,    \* let batchesExpected
    batchesProcessed,   \* let batchesProcessed
    streamingFinished,  \* let streamingFinished
    erroredDocuments,   \* sendToElastic: let erroredDocuments
    batchSkipped,       \* sendToElastic: let batchSkipped
    errorSummary,       \* sendToElastic: let errorSummary (keys are strings)
    inflight,           \* bulk calls awaited: [seq, realData, operations]
    stdout,             \* what was written to process.stdout / console.log
    emitted,            \* history: the 'data' events of collectData, in order
    acks,               \* history: the resolved bulk calls, in resolution order
    unhandled,          \* history: write() promises rejected before dispatch
    alive,              \* FALSE once the runtime ended the process
    store               \* the records of the index, when the store is modelled

vars == << args, stdin, read, buffer, batchesExpected, batchesProcessed,
           streamingFinished, erroredDocuments, batchSkipped, errorSummary,
           inflight, stdout, emitted, acks, unhandled, alive, store >>

(* ------------------------- the collaborator --------------------------- *)
(* One item of bulkResponse.body.items, reduced to what the code reads:    *)
(* action[operation].status and whether action[operation].error is set.   *)
(* 201 is a successful write, 409 a conflict and 400 stands for the other   *)
(* error statuses (mapping errors, 429), which all take the default case.   *)
Outcome == { [status |-> 201, error |-> FALSE],
             [status |-> StatusConflict, error |-> TRUE],
             [status |-> 400, error |-> TRUE] }

(* The responses of esClient.bulk to a body of n operations: one item per  *)
(* operation, and body.errors set exactly when some item carries an error.  *)
BulkResponses(n) ==
    { [errors |-> (\E i \in 1..n : items[i].error), items |-> items] :
        items \in [1..n -> Outcome] }

(* --------------------------- pure helpers ----------------------------- *)
(* Object keys are strings: errorSummary[409] is errorSummary["409"].      *)
StatusKey(status) ==
    CASE status = 409 -> "409"
      [] status = 400 -> "400"
      [] status = 429 -> "429"
      [] OTHER -> "201"

(* An update that sets the count to 1 whatever it was.                     *)
Increment_Reset(summary, key) ==
    [k \in DOMAIN summary \cup {key} |-> IF k = key THEN 1 ELSE summary[k]]

(* if(errorSummary[k]) errorSummary[k]++; else errorSummary[k] = 1;        *)
Increment(summary, key) ==
    IF key \in DOMAIN summary
    THEN [summary EXCEPT ![key] = @ + 1]
    ELSE [k \in DOMAIN summary \cup {key} |->
            IF k = key THEN 1 ELSE summary[k]]

(* A predicate that excludes no key.                                       *)
IsExcluded_Never(key, excludeKeys) == FALSE

(* excludeKeys: function(key) { return args.excludeKeys.includes(key) }    *)
IsExcluded(key, excludeKeys) == key \in excludeKeys

(* What object-hash digests: the pairs it was not told to exclude, in an   *)
(* order that does not depend on insertion order (it sorts the keys).  The *)
(* digest is modelled as injective on this canonical form.                 *)
Canonical(pairs) == { pairs[i] : i \in 1..Len(pairs) }

(* hash(doc, { excludeKeys: ... })                                         *)
Hash(doc, excludeKeys) ==
    Canonical(SelectSeq(doc, LAMBDA p : ~IsExcluded(p[1], excludeKeys)))

(* Buffer.from(String(fieldValue)).toString('base64')                      *)
Base64(fieldValue) == << "base64", fieldValue >>

(* A callback that never throws.                                           *)
MissingIdField_Never(realData, a) == FALSE

(* fieldValue === undefined || fieldValue === null, for some document       *)
MissingIdField(realData, a) ==
    a.upsert /\ \E i \in 1..Len(realData) : Field(realData[i], "id") = NoValue

(* A callback that sends an update under the content hash in create mode.  *)
OperationPair_AlwaysUpdate(doc, a) ==
    << [op |-> "update",
        _id |-> IF a.upsert THEN Base64(Field(doc, "id"))
                ELSE Hash(doc, a.excludeKeys)],
       [doc |-> doc, doc_as_upsert |-> TRUE] >>

(* The two entries the flatMap callback returns for one document.          *)
OperationPair(doc, a) ==
    IF a.upsert
    THEN << [op |-> "update", _id |-> Base64(Field(doc, "id"))],
            [doc |-> doc, doc_as_upsert |-> TRUE] >>
    ELSE << [op |-> "create", _id |-> Hash(doc, a.excludeKeys)], doc >>

RECURSIVE Operations(_, _)
Operations(realData, a) ==
    IF realData = <<>> THEN <<>>
    ELSE OperationPair(Head(realData), a) \o Operations(Tail(realData), a)

(* ------------------------ the Result Classifier ----------------------- *)
(* A test that never takes the duplicate branch.                           *)
IsSkippedDuplicate_Never(status, a) == FALSE

(* A test that takes the duplicate branch in upsert mode as well.          *)
IsSkippedDuplicate_AnyMode(status, a) == status = StatusConflict

(* case 409 with !args.upsert: the outcome is a skipped duplicate.         *)
IsSkippedDuplicate(status, a) ==
    status = StatusConflict /\ ~a.upsert

(* A callback that classifies by status without looking for an error.     *)
ClassifyItem_StatusOnly(acc, action, i, a) ==
    IF IsSkippedDuplicate(action.status, a)
    THEN [acc EXCEPT
            !.errorSummary = IF a.verbose THEN Increment(@, "Skipped") ELSE @,
            !.batchSkipped = @ + 1]
    ELSE [acc EXCEPT
            !.erroredDocuments =
                Append(@, [status |-> action.status, docIndex |-> i]),
            !.errorSummary = Increment(@, StatusKey(action.status))]

(* A callback that records the 1-based position of the item.              *)
ClassifyItem_OneBased(acc, action, i, a) ==
    IF ~action.error THEN acc
    ELSE IF IsSkippedDuplicate(action.status, a)
    THEN [acc EXCEPT
            !.errorSummary = IF a.verbose THEN Increment(@, "Skipped") ELSE @,
            !.batchSkipped = @ + 1]
    ELSE [acc EXCEPT
            !.erroredDocuments =
                Append(@, [status |-> action.status, docIndex |-> i + 1]),
            !.errorSummary = Increment(@, StatusKey(action.status))]

(* The body of the forEach callback for the item at 0-based index i.  acc  *)
(* holds the three variables of the closure that the callback writes.      *)
ClassifyItem(acc, action, i, a) ==
    IF ~action.error THEN acc
    ELSE IF IsSkippedDuplicate(action.status, a)
    THEN [acc EXCEPT
            !.errorSummary = IF a.verbose THEN Increment(@, "Skipped") ELSE @,
            !.batchSkipped = @ + 1]
    ELSE [acc EXCEPT
            !.erroredDocuments =
                Append(@, [status |-> action.status, docIndex |-> i]),
            !.errorSummary = Increment(@, StatusKey(action.status))]

(* bulkResponse.body.items.forEach(...) over the first n items.            *)
RECURSIVE Classify(_, _, _, _)
Classify(acc, items, n, a) ==
    IF n = 0 THEN acc
    ELSE ClassifyItem(Classify(acc, items, n - 1, a), items[n], n - 1, a)

(* A report that leaves the list as it is.                                 *)
AfterReport_Kept(errored) == errored

(* erroredDocuments after the report: cleared when a block was written.    *)
AfterReport(errored) ==
    IF Len(errored) > 0 THEN <<>> ELSE errored

(* formatErrorSummary: one row per key, and the total of the counts, which *)
(* is rendered only when it is positive.                                   *)
RECURSIVE SumCounts(_, _)
SumCounts(summary, keys) ==
    IF keys = {} THEN 0
    ELSE LET k == CHOOSE x \in keys : TRUE
         IN  summary[k] + SumCounts(summary, keys \ {k})

formatErrorSummary(summary) ==
    [type |-> "summary",
     rows |-> summary,
     total |-> SumCounts(summary, DOMAIN summary),
     showsTotal |-> SumCounts(summary, DOMAIN summary) > 0]

(* The completion test without the exhausted flag.                         *)
AllBatchesProcessed_NoFlag(processed, expected, finished) ==
    processed = expected

(* A completion test that also wants an empty ErrorSummary.                *)
AllBatchesProcessed_NoErrors(processed, expected, finished) ==
    processed = expected /\ finished /\ DOMAIN errorSummary = {}

(* batchesProcessed === batchesExpected && streamingFinished               *)
AllBatchesProcessed(processed, expected, finished) ==
    processed = expected /\ finished

(* ----------------------------- the Batcher ---------------------------- *)
(* A push at the front of the buffer.                                      *)
Push_Front(buf, l) == << l >> \o buf

(* buffer.push(l)                                                          *)
Push(buf, l) == Append(buf, l)

(* A comparison that lets one more document in.                            *)
BufferFull_OneLate(buf, size) == Len(buf) = size + 1

(* buffer.length == size                                                   *)
BufferFull(buf, size) == Len(buf) = size

(* A flush that does not count the remainder as a batch.                   *)
ExpectedAfterEnd_NotCounted(buf, expected) == expected

(* A flush that counts a batch whatever the buffer holds.                  *)
ExpectedAfterEnd_AlwaysCounted(buf, expected) == expected + 1

(* if(buffer.length > 0) batchesExpected++                                 *)
ExpectedAfterEnd(buf, expected) ==
    IF Len(buf) > 0 THEN expected + 1 ELSE expected

(* ------------------------------- Init --------------------------------- *)
(* --excludeKeys as given on the command line (defaultValue: []).          *)
ExcludeKeySets == { {} }

(* The state when the pipeline has been wired (.pipe(...).pipe(...)): the  *)
(* command line is parsed, with --upsert implying --idField and batchSize   *)
(* a positive integer, and nothing has been read from stdin yet.  docs are  *)
(* the documents stdin may hold, at most n of them, and keySets the values  *)
(* of --excludeKeys.                                                        *)
WiredWith(docs, n, keySets) ==
    /\ args \in [batchSize : 1..MaxBatchSize, verbose : BOOLEAN,
                 upsert : BOOLEAN, excludeKeys : keySets]
    /\ stdin \in SeqsUpTo(docs, n)
    /\ read = 0
    /\ buffer = <<>>
    /\ batchesExpected = 0
    /\ batchesProcessed = 0
    /\ streamingFinished = FALSE
    /\ erroredDocuments = <<>>
    /\ batchSkipped = 0
    /\ errorSummary = [k \in {} |-> 0]
    /\ inflight = {}
    /\ stdout = <<>>
    /\ emitted = <<>>
    /\ acks = <<>>
    /\ unhandled = {}
    /\ alive = TRUE

Wired == WiredWith(Doc, MaxDocs, ExcludeKeySets)

Init == Wired /\ store = <<>>

(* ------------------------ sendToElastic.write ------------------------- *)
(* The part of stream.write that runs synchronously inside the 'data'      *)
(* event: parse, return on an empty array, build the operations (which      *)
(* throws on a missing ID field, rejecting the promise that write returns   *)
(* and that nobody observes), and start the bulk call.  seq is the number   *)
(* of the batch in production order.  An unobserved rejection ends the      *)
(* process on runtimes that treat it as fatal and is only warned about on   *)
(* the others.                                                              *)
SendToElasticWrite(realData, seq) ==
    IF realData = <<>>
    THEN UNCHANGED << inflight, unhandled, alive >>
    ELSE IF MissingIdField(realData, args)
    THEN /\ unhandled' = unhandled \cup {seq}
         /\ alive' \in BOOLEAN
         /\ UNCHANGED inflight
    ELSE /\ inflight' = inflight \cup
                { [seq |-> seq, realData |-> realData,
                   operations |-> Operations(realData, args)] }
         /\ UNCHANGED << unhandled, alive >>

(* ------------------------- collectData.write -------------------------- *)
Write ==
    /\ alive
    /\ ~streamingFinished
    /\ read < Len(stdin)
    /\ read' = read + 1
    /\ LET buf == Push(buffer, stdin[read + 1])
       IN  IF BufferFull(buf, args.batchSize)
           THEN /\ batchesExpected' = batchesExpected + 1
                /\ emitted' = Append(emitted, buf)
                /\ SendToElasticWrite(buf, batchesExpected + 1)
                /\ buffer' = <<>>
           ELSE /\ buffer' = buf
                /\ UNCHANGED << batchesExpected, emitted, inflight,
                                unhandled, alive >>
    /\ UNCHANGED << args, stdin, batchesProcessed, streamingFinished,
                    erroredDocuments, batchSkipped, errorSummary, stdout, acks,
                    store >>

(* -------------------------- collectData.end --------------------------- *)
(* Called once, when the parser has emitted its last document.             *)
End ==
    /\ alive
    /\ ~streamingFinished
    /\ read = Len(stdin)
    /\ batchesExpected' = ExpectedAfterEnd(buffer, batchesExpected)
    /\ streamingFinished' = TRUE
    /\ emitted' = Append(emitted, buffer)
    /\ SendToElasticWrite(buffer, batchesExpected')
    /\ buffer' = <<>>
    /\ UNCHANGED << args, stdin, read, batchesProcessed, erroredDocuments,
                    batchSkipped, errorSummary, stdout, acks, store >>

(* ------------- sendToElastic.write, after the await: resolved --------- *)
(* An increment by two.                                                    *)
Acknowledge_Twice(processed) == processed + 2

(* batchesProcessed++                                                      *)
Acknowledge(processed) == processed + 1

VerboseLine(line) == IF args.verbose THEN << line >> ELSE <<>>

BulkResolve(call, bulkResponse) ==
    LET processed == Acknowledge(batchesProcessed)
        acc0 == [erroredDocuments |-> erroredDocuments,
                 batchSkipped |-> batchSkipped,
                 errorSummary |-> errorSummary]
        acc == IF bulkResponse.errors
               THEN Classify(acc0, bulkResponse.items,
                             Len(bulkResponse.items), args)
               ELSE acc0
        block == IF bulkResponse.errors /\ Len(acc.erroredDocuments) > 0
                 THEN << [type |-> "batch",
                          batch |-> processed,
                          docs |-> Len(call.realData),
                          skipped |-> acc.batchSkipped,
                          errors |-> acc.erroredDocuments] >>
                 ELSE <<>>
        completion ==
            IF AllBatchesProcessed(processed, batchesExpected, streamingFinished)
            THEN VerboseLine([type |-> "allProcessed", batch |-> processed])
                 \o << formatErrorSummary(acc.errorSummary) >>
            ELSE <<>>
    IN  /\ alive
        /\ call \in inflight
        /\ inflight' = inflight \ {call}
        /\ batchesProcessed' = processed
        /\ erroredDocuments' = IF bulkResponse.errors
                               THEN AfterReport(acc.erroredDocuments)
                               ELSE erroredDocuments
        /\ batchSkipped' = IF bulkResponse.errors THEN 0 ELSE batchSkipped
        /\ errorSummary' = acc.errorSummary
        /\ stdout' = stdout
                     \o VerboseLine([type |-> "processing", batch |-> processed,
                                     docs |-> Len(call.realData)])
                     \o block
                     \o VerboseLine([type |-> "success"])
                     \o completion
        /\ acks' = Append(acks, [seq |-> call.seq,
                                 items |-> bulkResponse.items,
                                 batchSkipped |-> acc.batchSkipped,
                                 erroredDocuments |-> acc.erroredDocuments])
        /\ UNCHANGED << args, stdin, read, buffer, batchesExpected,
                        streamingFinished, emitted, unhandled, alive >>

(* ------------- sendToElastic.write, after the await: rejected --------- *)
(* catch(e) { console.log('Error during bulk:', e) }                       *)
BulkReject(call) ==
    /\ alive
    /\ call \in inflight
    /\ inflight' = inflight \ {call}
    /\ stdout' = Append(stdout, [type |-> "bulkError"])
    /\ UNCHANGED << args, stdin, read, buffer, batchesExpected,
                    batchesProcessed, streamingFinished, erroredDocuments,
                    batchSkipped, errorSummary, emitted, acks, unhandled, alive >>

(* Under Spec the collaborator answers anything well formed and the index  *)
(* is not followed.                                                        *)
Resolve ==
    /\ \E call \in inflight :
          \E bulkResponse \in BulkResponses(Len(call.realData)) :
              BulkResolve(call, bulkResponse)
    /\ UNCHANGED store

Reject ==
    /\ \E call \in inflight : BulkReject(call)
    /\ UNCHANGED store

Next == Write \/ End \/ Resolve \/ Reject

Spec == Init /\ [][Next]_vars

(* Every bulk call settles (requestTimeout bounds it), the parser emits    *)
(* every document it was given and then ends.                              *)
FairSpec ==
    Spec /\ WF_vars(Write) /\ WF_vars(End) /\ WF_vars(Resolve \/ Reject)

(* ------------------------- observations ------------------------------- *)
Indices(type) == { i \in 1..Len(stdout) : stdout[i].type = type }

(* How many times the completion branch ran (it writes the summary).       *)
Completions == Cardinality(Indices("summary"))

(* The batches counted as produced: the non-empty 'data' events.           *)
Produced == { i \in 1..Len(emitted) : emitted[i] # <<>> }

(* The production numbers of the batches whose bulk call resolved.         *)
AckedSeqs == { acks[k].seq : k \in 1..Len(acks) }

(* Nothing more can happen: the input is flushed and no call is awaited,   *)
(* or the process is gone.                                                 *)
Drained == ~alive \/ (streamingFinished /\ inflight = {})

(* Every produced batch was dispatched and its bulk call returned a        *)
(* response.                                                               *)
AllResponded == AckedSeqs = 1..Cardinality(Produced)

NonMultiple == Len(stdin) % args.batchSize # 0

(* ------------------------------- C1 ----------------------------------- *)
(* C1: the completion fires at most once, and the step that fires it ends  *)
(* in a state where the input is exhausted and produced = acknowledged; it *)
(* never fires while streamingFinished is still false.                     *)
C1_CompletionOnceWhenDrained ==
    /\ [](Completions <= 1)
    /\ [][Completions' > Completions =>
            /\ streamingFinished /\ streamingFinished'
            /\ batchesProcessed' = batchesExpected']_vars

(* A run of several batches whose counters coincided and that completed.   *)
C1_Witness ==
    /\ Completions = 1
    /\ batchesExpected >= 2
    /\ batchesProcessed = batchesExpected

(* ------------------------------- C2 ----------------------------------- *)
(* C2: when the document count is not a multiple of batchSize and every    *)
(* bulk call returns a response, the completion eventually fires, exactly  *)
(* once, and the step that fires it leaves every produced batch, the last  *)
(* smaller one included, acknowledged, in whatever order the calls resolve.*)
C2_CompletionAfterLastBatch ==
    /\ NonMultiple ~> (Drained /\ (AllResponded => Completions = 1))
    /\ [][Completions' > Completions =>
            AckedSeqs' = 1..Cardinality(Produced')]_vars

(* Three documents in batches of two, the smaller last batch resolved      *)
(* first, and the completion fired.                                        *)
C2_Witness ==
    /\ NonMultiple
    /\ Completions = 1
    /\ Len(acks) >= 2
    /\ acks[1].seq = batchesExpected

(* ------------------------------- C3 ----------------------------------- *)
BulkErrors == Cardinality(Indices("bulkError"))

(* C3: when the bulk call of a batch rejects, the acknowledged count still *)
(* advances and the completion condition is checked, so that a run with a  *)
(* failed call whose other batches all settled has completed once drained. *)
C3_RejectedBatchAcknowledged ==
    /\ [][BulkErrors' > BulkErrors =>
            batchesProcessed' = batchesProcessed + 1]_vars
    /\ [](Drained /\ alive /\ unhandled = {} /\ BulkErrors > 0 /\ NonMultiple
            => Completions = 1)

(* ------------------------------- C4 ----------------------------------- *)
(* C4: when the remainder at input exhaustion is empty (no document, or a  *)
(* multiple of batchSize) and every produced batch is acknowledged, the    *)
(* completion has fired once nothing is left to happen.                    *)
C4_EmptyFlushCompletes ==
    Drained /\ alive /\ ~NonMultiple /\ AllResponded => Completions = 1

(* ------------------------------- C5 ----------------------------------- *)
(* The error entries a bulk response calls for on its own: one per item    *)
(* that carries an error and is not a create-mode conflict, in item order. *)
OwnErrors(items) ==
    LET all == [i \in 1..Len(items) |->
                  [status |-> items[i].status, docIndex |-> i - 1,
                   error |-> items[i].error]]
        kept == SelectSeq(all, LAMBDA e :
                    e.error /\ ~(e.status = 409 /\ ~args.upsert))
    IN  [j \in 1..Len(kept) |->
            [status |-> kept[j].status, docIndex |-> kept[j].docIndex]]

(* The create-mode conflicts of a bulk response.                           *)
OwnSkips(items) ==
    IF args.upsert THEN 0
    ELSE Cardinality({ i \in 1..Len(items) :
                         items[i].error /\ items[i].status = 409 })

(* C5: every per-batch block lists exactly the error outcomes of the bulk  *)
(* response that its batch received, and shows that response's own number  *)
(* of skipped duplicates, in whatever order the calls in flight resolve.   *)
C5_BlockIsOwnBatch ==
    \A i \in Indices("batch") :
        LET own == acks[stdout[i].batch].items
        IN  /\ stdout[i].errors = OwnErrors(own)
            /\ stdout[i].skipped = OwnSkips(own)

(* Two blocks were written, one of them for a batch that resolved out of   *)
(* production order and had both errors and skipped duplicates.            *)
C5_Witness ==
    /\ Cardinality(Indices("batch")) >= 2
    /\ \E i \in Indices("batch") :
          /\ acks[stdout[i].batch].seq # stdout[i].batch
          /\ stdout[i].skipped > 0

(* ------------------------------- C6 ----------------------------------- *)
RECURSIVE Flatten(_)
Flatten(batches) ==
    IF batches = <<>> THEN <<>>
    ELSE Head(batches) \o Flatten(Tail(batches))

(* C6: the emitted batches, concatenated in emission order and followed by *)
(* what is still buffered and still unread, are the input sequence; after  *)
(* the flush the emitted batches alone are the input sequence.             *)
C6_BatchesPartitionInput ==
    /\ Flatten(emitted) \o buffer \o SubSeq(stdin, read + 1, Len(stdin)) = stdin
    /\ streamingFinished => Flatten(emitted) = stdin

(* Flushed input of distinct documents, a full batch and a remainder.      *)
C6_Witness ==
    /\ streamingFinished
    /\ Len(stdin) = 3
    /\ stdin[1] # stdin[2]
    /\ Len(emitted) = 2
    /\ Len(emitted[2]) = 1

(* ------------------------------- C7 ----------------------------------- *)
(* C7: every produced batch has at most batchSize documents, a batch that  *)
(* a push emitted has exactly batchSize, and only the batch of the flush,  *)
(* the last one, may be smaller.                                           *)
C7_BatchSizes ==
    \A i \in Produced :
        /\ Len(emitted[i]) <= args.batchSize
        /\ (i < Len(emitted) \/ ~streamingFinished)
              => Len(emitted[i]) = args.batchSize

(* A run with a full batch followed by a smaller produced last batch.      *)
C7_Witness ==
    /\ streamingFinished
    /\ Cardinality(Produced) = 2
    /\ Len(emitted[Len(emitted)]) \in 1..(args.batchSize - 1)

(* ------------------------------- C8 ----------------------------------- *)
(* The items of a response that carry an error with status 409.            *)
Conflicts(items) ==
    { i \in 1..Len(items) : items[i].error /\ items[i].status = 409 }

RECURSIVE TotalConflicts(_)
TotalConflicts(n) ==
    IF n = 0 THEN 0
    ELSE Cardinality(Conflicts(acks[n].items)) + TotalConflicts(n - 1)

Count(key) == IF key \in DOMAIN errorSummary THEN errorSummary[key] ELSE 0

(* C8: in create mode every 409 outcome of a response adds one to the      *)
(* per-batch skip counter, none enters the per-batch error list or the     *)
(* ErrorSummary count under 409, and the "Skipped" count is the number of  *)
(* 409 outcomes so far when verbose is on and absent when it is off.       *)
C8_ConflictIsSkipInCreateMode ==
    ~args.upsert =>
        /\ \A k \in 1..Len(acks) :
              /\ acks[k].batchSkipped = Cardinality(Conflicts(acks[k].items))
              /\ \A j \in 1..Len(acks[k].erroredDocuments) :
                    acks[k].erroredDocuments[j].status # 409
        /\ "409" \notin DOMAIN errorSummary
        /\ Count("Skipped") =
              IF args.verbose THEN TotalConflicts(Len(acks)) ELSE 0
        /\ ~args.verbose => "Skipped" \notin DOMAIN errorSummary

(* Create mode, verbose: two responses with conflicts were classified.     *)
C8_Witness ==
    /\ ~args.upsert
    /\ args.verbose
    /\ Len(acks) >= 2
    /\ \A k \in 1..2 : acks[k].batchSkipped >= 1
    /\ Count("Skipped") >= 2

(* ------------------------------- C9 ----------------------------------- *)
(* C9: in upsert mode every 409 outcome is recorded in the per-batch error *)
(* list with its index and counted in the ErrorSummary under 409, the skip *)
(* counter stays at 0 and no "Skipped" count appears.                      *)
C9_ConflictIsErrorInUpsertMode ==
    args.upsert =>
        /\ \A k \in 1..Len(acks) :
              /\ acks[k].batchSkipped = 0
              /\ \A i \in Conflicts(acks[k].items) :
                    \E j \in 1..Len(acks[k].erroredDocuments) :
                        acks[k].erroredDocuments[j] =
                            [status |-> 409, docIndex |-> i - 1]
        /\ Count("409") = TotalConflicts(Len(acks))
        /\ "Skipped" \notin DOMAIN errorSummary

(* Upsert mode: a response with a conflict was classified and reported.    *)
C9_Witness ==
    /\ args.upsert
    /\ Count("409") >= 1
    /\ \E i \in Indices("batch") :
          \E j \in 1..Len(stdout[i].errors) : stdout[i].errors[j].status = 409

(* ------------------------------- C10 ---------------------------------- *)
(* The batch blocks written for the k-th resolved call.                    *)
BlocksOf(k) == { i \in Indices("batch") : stdout[i].batch = k }

(* C10: in a run whose final summary was written (so every batch was       *)
(* dispatched and answered), every document that was not written is        *)
(* accounted for: each error outcome is listed in the block of its batch,  *)
(* the skipped duplicates of a batch are shown in its block or counted in  *)
(* the final summary, and for every verbose setting the final summary      *)
(* reports the skipped duplicates of the run under "Skipped".              *)
C10_EveryFailureAccounted ==
    Completions = 1 =>
        /\ \A k \in 1..Len(acks) :
              /\ OwnErrors(acks[k].items) # <<>> =>
                    \E i \in BlocksOf(k) :
                        stdout[i].errors = OwnErrors(acks[k].items)
              /\ OwnSkips(acks[k].items) > 0 =>
                    \/ \E i \in BlocksOf(k) :
                          stdout[i].skipped = OwnSkips(acks[k].items)
                    \/ \E i \in Indices("summary") :
                          "Skipped" \in DOMAIN stdout[i].rows
        /\ (~args.upsert /\ TotalConflicts(Len(acks)) > 0) =>
              \E i \in Indices("summary") :
                  /\ "Skipped" \in DOMAIN stdout[i].rows
                  /\ stdout[i].rows["Skipped"] = TotalConflicts(Len(acks))

(* ============================ the index ================================ *)
(* The store behind esClient.bulk, as the bulk protocol describes it: a    *)
(* create is rejected with 409 when a record exists under its identifier   *)
(* and adds a record otherwise; an update with doc_as_upsert merges into   *)
(* the record under its identifier and adds one when there is none.        *)
Position(st, id) ==
    IF \E r \in 1..Len(st) : st[r]._id = id
    THEN CHOOSE r \in 1..Len(st) : st[r]._id = id
    ELSE 0

(* The fields of `new` over those of `old`.                                *)
Merge(old, new) ==
    SelectSeq(old, LAMBDA p : Field(new, p[1]) = NoValue) \o new

StoreApply(st, action, payload) ==
    LET at == Position(st, action._id)
    IN  IF action.op = "create"
        THEN IF at # 0
             THEN [store |-> st,
                   item |-> [status |-> 409, error |-> TRUE]]
             ELSE [store |-> Append(st, [_id |-> action._id, doc |-> payload]),
                   item |-> [status |-> 201, error |-> FALSE]]
        ELSE IF at # 0
             THEN [store |-> [st EXCEPT ![at].doc = Merge(@, payload.doc)],
                   item |-> [status |-> 200, error |-> FALSE]]
             ELSE [store |-> Append(st, [_id |-> action._id,
                                         doc |-> payload.doc]),
                   item |-> [status |-> 201, error |-> FALSE]]

(* One bulk request, its operations applied in order.                      *)
RECURSIVE StoreBulk(_, _, _)
StoreBulk(st, operations, n) ==
    IF n = 0 THEN [store |-> st, items |-> <<>>]
    ELSE LET before == StoreBulk(st, operations, n - 1)
             this == StoreApply(before.store, operations[2 * n - 1],
                                operations[2 * n])
         IN  [store |-> this.store, items |-> Append(before.items, this.item)]

StoreAnswer(st, call) ==
    LET done == StoreBulk(st, call.operations, Len(call.realData))
    IN  [store |-> done.store,
         response |-> [errors |-> (\E i \in 1..Len(done.items) :
                                      done.items[i].error),
                       items |-> done.items]]

(* The index as an earlier run over the first n documents of the same      *)
(* input left it.                                                          *)
StoreInit ==
    /\ Wired
    /\ \E n \in 0..Len(stdin) :
          /\ ~MissingIdField(SubSeq(stdin, 1, n), args)
          /\ store = StoreBulk(<<>>, Operations(SubSeq(stdin, 1, n), args),
                               n).store

StoreResolve ==
    \E call \in inflight :
        LET answer == StoreAnswer(store, call)
        IN  /\ BulkResolve(call, answer.response)
            /\ store' = answer.store

(* A call that failed in transport may or may not have reached the index.  *)
StoreReject ==
    \E call \in inflight :
        /\ BulkReject(call)
        /\ store' \in { store, StoreAnswer(store, call).store }

StoreNext == Write \/ End \/ StoreResolve \/ StoreReject

StoreSpec == StoreInit /\ [][StoreNext]_vars

(* ------------------------------- C11 ---------------------------------- *)
(* Two documents with the same content outside the excluded keys.          *)
SameContent(d1, d2) ==
    \A k \in { d1[i][1] : i \in 1..Len(d1) } \cup { d2[i][1] : i \in 1..Len(d2) } :
        k \notin args.excludeKeys => Field(d1, k) = Field(d2, k)

(* The documents of a batch that repeat a record of the index or an        *)
(* earlier document of the batch.                                          *)
Duplicates(realData, st) ==
    { i \in 1..Len(realData) :
        \/ \E r \in 1..Len(st) : SameContent(st[r].doc, realData[i])
        \/ \E j \in 1..(i - 1) : SameContent(realData[j], realData[i]) }

TotalSkipped == LET RECURSIVE Sum(_)
                    Sum(n) == IF n = 0 THEN 0
                              ELSE acks[n].batchSkipped + Sum(n - 1)
                IN  Sum(Len(acks))

(* C11: in create mode against such a store, no two records of the index   *)
(* have the same content, and every answered batch adds one record per     *)
(* document that is not a duplicate, has as many outcomes classified as    *)
(* skipped as it has duplicates, and has none classified as an error.      *)
C11_ReingestAddsNothing ==
    /\ [](~args.upsert =>
            \A r1, r2 \in 1..Len(store) :
                r1 # r2 => ~SameContent(store[r1].doc, store[r2].doc))
    /\ [][(~args.upsert /\ acks' # acks) =>
            LET call == CHOOSE c \in inflight : c \notin inflight'
                last == acks'[Len(acks')]
                dups == Cardinality(Duplicates(call.realData, store))
            IN  /\ last.batchSkipped = dups
                /\ last.erroredDocuments = <<>>
                /\ Len(store') = Len(store) + Len(call.realData) - dups]_vars

(* Create mode: the input was in the index already and was ingested again, *)
(* two duplicates were skipped and the index did not grow.                 *)
C11_Witness ==
    /\ ~args.upsert
    /\ streamingFinished /\ inflight = {}
    /\ Len(stdin) >= 2
    /\ TotalSkipped = Len(stdin)
    /\ Len(store) = 1


(* ------------------------------- C12 ---------------------------------- *)
(* The batches of 'data' events whose documents lack the ID field.         *)
LacksId(realData) ==
    \E i \in 1..Len(realData) : Field(realData[i], "id") = NoValue

(* The identifiers of the operations of one bulk body.                     *)
IdsOf(operations) ==
    { operations[2 * i - 1]._id : i \in 1..(Len(operations) \div 2) }

(* C12: in upsert mode a batch with a document lacking the ID field fails  *)
(* before dispatch: the step that produces it starts no bulk call, no      *)
(* operation under the identifier of an absent value is ever in a bulk     *)
(* body, and the failure touches neither the error list nor the            *)
(* ErrorSummary.                                                           *)
C12_MissingIdFailsBeforeDispatch ==
    /\ [](args.upsert =>
            \A call \in inflight :
                /\ ~LacksId(call.realData)
                /\ Base64(NoValue) \notin IdsOf(call.operations))
    /\ [][(args.upsert /\ emitted' # emitted
                /\ LacksId(emitted'[Len(emitted')])) =>
            /\ inflight' = inflight
            /\ unhandled' = unhandled \cup {batchesExpected'}
            /\ erroredDocuments' = erroredDocuments
            /\ errorSummary' = errorSummary
            /\ stdout' = stdout]_vars

(* A batch of two documents, the first with the ID field and the second    *)
(* without, failed as a whole.                                             *)
C12_Witness ==
    /\ args.upsert
    /\ \E n \in 1..Len(emitted) :
          /\ Len(emitted[n]) = 2
          /\ Field(emitted[n][1], "id") # NoValue
          /\ Field(emitted[n][2], "id") = NoValue
          /\ n \in unhandled

(* ------------------------------- C13 ---------------------------------- *)
(* C13: after a missing-ID failure in one batch, once the process is still *)
(* running, the input is flushed and every other produced batch (at least  *)
(* one) has been acknowledged, the final summary has been written.         *)
C13_MissingIdRecovered ==
    (/\ alive
     /\ streamingFinished
     /\ inflight = {}
     /\ unhandled # {}
     /\ AckedSeqs # {}
     /\ AckedSeqs = (1..Cardinality(Produced)) \ unhandled)
        => Completions = 1

(* ------------------------------- C14 ---------------------------------- *)
(* The k-th resolved call is the one that makes batchesProcessed k, so the *)
(* block numbered k reports the batch of acks[k].                          *)
ReportedBatch(i) == acks[stdout[i].batch]

(* C14: when every batch was dispatched and no call was rejected, the      *)
(* number in a per-batch block is the production number of the batch the   *)
(* block reports, whatever the order in which the calls resolve.           *)
C14_BlockNumberIsSequenceNumber ==
    (unhandled = {} /\ Indices("bulkError") = {}) =>
        \A i \in Indices("batch") : stdout[i].batch = ReportedBatch(i).seq

(* ------------------------------- C15 ---------------------------------- *)
(* The error outcomes with the given status in the first n resolved calls. *)
RECURSIVE ErrorsWithStatus(_, _)
ErrorsWithStatus(status, n) ==
    IF n = 0 THEN 0
    ELSE LET own == OwnErrors(acks[n].items)
         IN  Cardinality({ j \in 1..Len(own) : own[j].status = status })
                + ErrorsWithStatus(status, n - 1)

RowCount(rows, key) == IF key \in DOMAIN rows THEN rows[key] ELSE 0

(* The statuses an error outcome can carry.                                *)
ErrorStatuses == { o.status : o \in { x \in Outcome : x.error } }

(* C15: when the final summary is written, every produced batch has been   *)
(* acknowledged exactly once, the count under each status is the number of *)
(* outcomes classified as errors with that status over all of them, and    *)
(* the Total, which is rendered when positive, is the sum of the counts.   *)
C15_SummaryCountsAllErrors ==
    \A i \in Indices("summary") :
        /\ AckedSeqs = 1..Cardinality(Produced)
        /\ Len(acks) = Cardinality(Produced)
        /\ \A status \in ErrorStatuses :
              RowCount(stdout[i].rows, StatusKey(status))
                  = ErrorsWithStatus(status, Len(acks))
        /\ DOMAIN stdout[i].rows \subseteq
              { StatusKey(status) : status \in ErrorStatuses } \cup {"Skipped"}
        /\ stdout[i].total =
              RowCount(stdout[i].rows, "400") + RowCount(stdout[i].rows, "409")
                  + RowCount(stdout[i].rows, "Skipped")
        /\ stdout[i].showsTotal = (stdout[i].total > 0)

(* A summary after two batches acknowledged out of production order, each  *)
(* with an error of the same status, and an error of another status.       *)
C15_Witness ==
    \E i \in Indices("summary") :
        /\ Len(acks) >= 2
        /\ acks[1].seq # 1
        /\ RowCount(stdout[i].rows, "400") >= 2
        /\ RowCount(stdout[i].rows, "409") >= 1
        /\ \A k \in 1..2 : acks[k].erroredDocuments # <<>>

(* ------------------------------- C16 ---------------------------------- *)
(* C16: the bulk calls awaited at one time do not grow with the input: for *)
(* an input of two or more batches they are never all of its batches, as   *)
(* upstream waits for the dispatcher before it pushes the next batch.      *)
C16_InFlightBounded ==
    Cardinality(Produced) >= 2 =>
        Cardinality(inflight) < Cardinality(Produced)

(* ------------------------------- C17 ---------------------------------- *)
(* Documents to compare identifiers on: a document, the same with its keys *)
(* in the other insertion order, one that differs in "ts" only and one     *)
(* that differs in "a" only.                                               *)
HashDocs == { << <<"a", "x">>, <<"ts", "t1">> >>,
              << <<"ts", "t1">>, <<"a", "x">> >>,
              << <<"a", "x">>, <<"ts", "t2">> >>,
              << <<"a", "y">>, <<"ts", "t1">> >> }

(* --excludeKeys absent, and --excludeKeys ts.                             *)
HashExcludeKeySets == { {}, {"ts"} }

(* Create mode; the bulk calls stay awaited, so that the identifiers of    *)
(* all the documents read so far can be compared.                          *)
HashInit ==
    /\ WiredWith(HashDocs, MaxHashDocs, HashExcludeKeySets)
    /\ ~args.upsert
    /\ store = <<>>

HashNext == Write \/ End

HashSpec == HashInit /\ [][HashNext]_vars

(* The documents of the awaited calls with the identifier each was given.  *)
Identified ==
    UNION { { [doc |-> call.realData[i], _id |-> call.operations[2 * i - 1]._id] :
                i \in 1..Len(call.realData) } : call \in inflight }

(* C17: in create mode two documents are sent under the same identifier    *)
(* exactly when they have the same values under the keys that are not      *)
(* excluded: key order and excluded keys do not matter, any other          *)
(* difference does.                                                        *)
C17_IdentifierDeterministic ==
    \A x, y \in Identified :
        (x._id = y._id) <=> SameContent(x.doc, y.doc)

(* With --excludeKeys ts, all four documents have been given identifiers:  *)
(* the first three share one and the fourth has another.                   *)
C17_Witness ==
    /\ args.excludeKeys = {"ts"}
    /\ { x.doc : x \in Identified } = HashDocs
    /\ Cardinality({ x._id : x \in Identified }) = 2

(* ------------------------------- C18 ---------------------------------- *)
(* The response of the call that has just resolved carries an error.       *)
HasErrors(items) == \E i \in 1..Len(items) : items[i].error

(* C18: a response with per-operation errors is acknowledged like any      *)
(* other (the counter advances, the process goes on, and the completion    *)
(* fires in that very step when it was the last one awaited); every batch  *)
(* produced is dispatched whatever was reported before; and a run whose    *)
(* last batch is the remainder and whose calls all returned a response,    *)
(* with or without errors, has completed once nothing is left to happen.   *)
C18_ErrorsNeverAbort ==
    /\ [][(acks' # acks /\ HasErrors(acks'[Len(acks')].items)) =>
            /\ batchesProcessed' = batchesProcessed + 1
            /\ alive'
            /\ (batchesProcessed' = batchesExpected /\ streamingFinished)
                  => Completions' = Completions + 1]_vars
    /\ [][(/\ emitted' # emitted
           /\ emitted'[Len(emitted')] # <<>>
           /\ ~(args.upsert /\ LacksId(emitted'[Len(emitted')]))) =>
            \E call \in inflight' \ inflight :
                /\ call.seq = batchesExpected'
                /\ call.realData = emitted'[Len(emitted')]]_vars
    /\ [](Drained /\ alive /\ unhandled = {} /\ NonMultiple /\ AllResponded
            => Completions = 1)

(* A completed run of two batches in which every outcome was an error.     *)
C18_Witness ==
    /\ Completions = 1
    /\ Len(acks) = 2
    /\ acks[1].seq = 1
    /\ \A k \in 1..2 :
          \A i \in 1..Len(acks[k].items) : acks[k].items[i].error

(* ------------------------------- C19 ---------------------------------- *)
(* The outcomes of a response that carry an error.                         *)
ErrorItems(items) == { i \in 1..Len(items) : items[i].error }

(* C19: an outcome without an error is recorded nowhere (what a response   *)
(* adds to the error list and to the skip counter is one entry per outcome *)
(* with an error), and acknowledging a response whose outcomes all carry   *)
(* no error leaves the ErrorSummary, the error list and the skip counter   *)
(* as they were and writes no per-batch block: only batchesProcessed       *)
(* advances.                                                               *)
C19_SuccessChangesNothing ==
    /\ [](\A k \in 1..Len(acks) :
            Len(acks[k].erroredDocuments) + acks[k].batchSkipped
                = Cardinality(ErrorItems(acks[k].items)))
    /\ [][(acks' # acks /\ ErrorItems(acks'[Len(acks')].items) = {}) =>
            /\ errorSummary' = errorSummary
            /\ erroredDocuments' = erroredDocuments
            /\ batchSkipped' = batchSkipped
            /\ Indices("batch")' = Indices("batch")
            /\ batchesProcessed' = batchesProcessed + 1]_vars

(* A response with a success and an error was classified, and then a       *)
(* response without any error was acknowledged.                            *)
C19_Witness ==
    /\ Len(acks) = 2
    /\ Cardinality(ErrorItems(acks[1].items)) = 1
    /\ Len(acks[1].items) = 2
    /\ ErrorItems(acks[2].items) = {}
    /\ DOMAIN errorSummary # {}

(* ------------------------------- C20 ---------------------------------- *)
(* C20: the flush of an empty buffer (the 'data' event of an empty array)  *)
(* leaves batchesExpected as it was, starts no bulk call and sets          *)
(* streamingFinished; no bulk call is ever made for an empty array.        *)
C20_EmptyFlushIsNoBatch ==
    /\ [](\A call \in inflight : call.realData # <<>>)
    /\ [][(emitted' # emitted /\ emitted'[Len(emitted')] = <<>>) =>
            /\ buffer = <<>>
            /\ batchesExpected' = batchesExpected
            /\ inflight' = inflight
            /\ unhandled' = unhandled
            /\ ~streamingFinished /\ streamingFinished']_vars

(* The input ended on a full batch: the flush was empty, after a produced  *)
(* batch that is still awaited.                                            *)
C20_Witness ==
    /\ streamingFinished
    /\ emitted[Len(emitted)] = <<>>
    /\ batchesExpected = 1
    /\ Cardinality(inflight) = 1

(* ------------------------------- C21 ---------------------------------- *)
(* The documents of the batch whose call resolved k-th: the only empty     *)
(* 'data' event is the last one, so the batch numbered seq in production   *)
(* order is emitted[seq].                                                  *)
BatchOf(k) == emitted[acks[k].seq]

(* The production numbers of the calls awaited.                            *)
InflightSeqs == { call.seq : call \in inflight }

(* C21: a bulk call is started only by the 'data' event of a non-empty     *)
(* batch, one call for that batch under a number not used before, and none *)
(* is started again when a call settles; the body of a call for n          *)
(* documents has 2n entries, the action descriptor and the payload of the  *)
(* i-th document at positions 2i-1 and 2i (counting from 1); and every     *)
(* recorded error carries the 0-based position, within its batch, of the   *)
(* outcome it was recorded for.                                            *)
C21_OneAlignedRequestPerBatch ==
    /\ [][emitted' = emitted => inflight' \subseteq inflight]_vars
    /\ [][emitted' # emitted =>
            /\ inflight \subseteq inflight'
            /\ Cardinality(inflight' \ inflight) <= 1
            /\ \A call \in inflight' \ inflight :
                  /\ call.realData = emitted'[Len(emitted')]
                  /\ call.realData # <<>>
                  /\ call.seq = Len(emitted')
                  /\ call.seq \notin InflightSeqs \cup AckedSeqs]_vars
    /\ [](\A call \in inflight :
            /\ Len(call.operations) = 2 * Len(call.realData)
            /\ \A i \in 1..Len(call.realData) :
                  LET descriptor == call.operations[2 * i - 1]
                      payload == call.operations[2 * i]
                      doc == call.realData[i]
                  IN  IF args.upsert
                      THEN /\ descriptor = [op |-> "update",
                                            _id |-> Base64(Field(doc, "id"))]
                           /\ payload.doc = doc
                      ELSE /\ descriptor = [op |-> "create",
                                            _id |-> Hash(doc, args.excludeKeys)]
                           /\ payload = doc)
    /\ [](\A k \in 1..Len(acks) :
            /\ Len(acks[k].items) = Len(BatchOf(k))
            /\ \A j \in 1..Len(acks[k].erroredDocuments) :
                  LET recorded == acks[k].erroredDocuments[j]
                  IN  /\ recorded.docIndex \in 0..(Len(BatchOf(k)) - 1)
                      /\ acks[k].items[recorded.docIndex + 1].error
                      /\ acks[k].items[recorded.docIndex + 1].status
                            = recorded.status)

(* A batch of two documents was answered with a success for the first and  *)
(* an error for the second, recorded at index 1, while the call of the     *)
(* next batch is awaited.                                                  *)
C21_Witness ==
    /\ Len(acks) = 1
    /\ Len(BatchOf(1)) = 2
    /\ ~acks[1].items[1].error
    /\ acks[1].erroredDocuments = << [status |-> 400, docIndex |-> 1] >>
    /\ \E call \in inflight : Len(call.operations) = 2

(* ------------------------------- C22 ---------------------------------- *)
(* C22: batchesProcessed never exceeds batchesExpected, neither counter    *)
(* ever decreases, and once streamingFinished is set it stays set and      *)
(* batchesExpected no longer changes.                                      *)
C22_CountersOrdered ==
    /\ [](batchesProcessed <= batchesExpected)
    /\ [][/\ batchesProcessed' >= batchesProcessed
          /\ batchesExpected' >= batchesExpected]_vars
    /\ [][streamingFinished =>
            /\ streamingFinished'
            /\ batchesExpected' = batchesExpected]_vars

(* After the flush, with both counters equal and more than one batch: a    *)
(* call resolved after streamingFinished was set.                          *)
C22_Witness ==
    /\ streamingFinished
    /\ batchesExpected = 2
    /\ batchesProcessed = batchesExpected
    /\ Len(acks) = 2
    /\ Completions = 1

(* ------------------------------- C23 ---------------------------------- *)
(* C23: between handler runs, so in every state and in particular while a  *)
(* bulk call is awaited, erroredDocuments is empty and batchSkipped is 0.  *)
C23_AccumulatorsCleanBetweenHandlers ==
    /\ erroredDocuments = <<>>
    /\ batchSkipped = 0

(* A response with both an error and a skipped duplicate was classified    *)
(* and reported while another bulk call is still awaited.                  *)
C23_Witness ==
    /\ inflight # {}
    /\ \E k \in 1..Len(acks) :
          /\ acks[k].erroredDocuments # <<>>
          /\ acks[k].batchSkipped > 0
=============================================================================
